---- MODULE Spec2Model ----
(***************************************************************************)
(* State-machine model of the DataTable component of vue-data-table: the  *)
(* filter step (updateFilteredData), the tri-state multi-column sort      *)
(* (sortRows with its helpers getOrderCorrection and updateOrder), the    *)
(* coordinator applyModifiers and the paginator's current page.           *)
(*                                                                         *)
(* The model follows the latest revision of the component, the second     *)
(* component of src/unnamed/part_001 (lines 283-635).  Its sort and       *)
(* filter code is the code of src/src/components/DataTable.vue (lines     *)
(* 104-230), to which that revision adds the reset of currentPage in      *)
(* updateFilteredData and the paginator's buttons.                        *)
(*                                                                         *)
(* Strings are sequences of one-character strings, so that lower-casing    *)
(* and substring search are computed and not assumed.  A row is known by   *)
(* its reference (an index into RowPool); arrays are sequences of row      *)
(* references.  With no filter key updateFilteredData stores props.data    *)
(* itself in displayedData, and the next sort, done in place, reorders     *)
(* the parent's array: the variable aliased records that the two are one   *)
(* array.  When the parent's array is reactive such an in-place sort also  *)
(* wakes the watcher of props.data, whose applyModifiers computes the      *)
(* same displayedData again and sets currentPage to 1; that second run is  *)
(* not part of the model.  The columns that are sorted hold values of one  *)
(* type in every row.                                                      *)
(***************************************************************************)
EXTENDS Integers, Sequences, FiniteSets, TLC

(***************************************************************************)
(* Bounds of the model.                                                    *)
(***************************************************************************)
\* longest source array the parent supplies
MaxRows == 3

(***************************************************************************)
(* Characters and strings                                                  *)
(***************************************************************************)
Digits == <<"0", "1", "2", "3", "4", "5", "6", "7", "8", "9">>

UpperChars == <<"A", "B", "C", "D", "E", "F", "G", "H", "I", "J", "K", "L", "M",
                "N", "O", "P", "Q", "R", "S", "T", "U", "V", "W", "X", "Y", "Z">>

LowerChars == <<"a", "b", "c", "d", "e", "f", "g", "h", "i", "j", "k", "l", "m",
                "n", "o", "p", "q", "r", "s", "t", "u", "v", "w", "x", "y", "z">>

\* the characters in code-unit order: digits < upper case < lower case
Alphabet == Digits \o UpperChars \o LowerChars

\* position of each character in the code-unit order
CharCodes ==
  [c \in {Alphabet[i] : i \in 1..Len(Alphabet)} |->
     CHOOSE i \in 1..Len(Alphabet) : Alphabet[i] = c]

CharCode(c) == CharCodes[c]

\* the lower-case form of each upper-case character
LowerOf ==
  [c \in {UpperChars[i] : i \in 1..Len(UpperChars)} |->
     LowerChars[CHOOSE i \in 1..Len(UpperChars) : UpperChars[i] = c]]

\* one character of String.prototype.toLowerCase
LowerChar(c) == IF c \in DOMAIN LowerOf THEN LowerOf[c] ELSE c

\* String.prototype.toLowerCase / toLocaleLowerCase
toLowerCase(s) == [i \in 1..Len(s) |-> LowerChar(s[i])]

\* String.prototype.includes: needle occurs in hay as a contiguous substring
includes(hay, needle) ==
  \E i \in 0..(Len(hay) - Len(needle)) :
    \A j \in 1..Len(needle) : hay[i + j] = needle[j]

\* decimal digits of a natural number, as String(n) prints them
RECURSIVE NumberToString(_)
NumberToString(n) ==
  IF n < 10 THEN <<Digits[n + 1]>>
            ELSE NumberToString(n \div 10) \o <<Digits[(n % 10) + 1]>>

\* the relational operator < on two strings: code-unit lexicographic order
RECURSIVE StringLess(_, _)
StringLess(s, t) ==
  IF t = <<>> THEN FALSE
  ELSE IF s = <<>> THEN TRUE
  ELSE IF CharCode(Head(s)) < CharCode(Head(t)) THEN TRUE
  ELSE IF CharCode(Head(s)) > CharCode(Head(t)) THEN FALSE
  ELSE StringLess(Tail(s), Tail(t))

(***************************************************************************)
(* Cell values (type CellValue) and rows (type RowEntry)                   *)
(***************************************************************************)
Str(s) == [type |-> "string", val |-> s]
Num(n) == [type |-> "number", val |-> n]
Bool(b) == [type |-> "boolean", val |-> b]

\* String(val) of a cell value
String(cell) ==
  CASE cell.type = "string" -> cell.val
    [] cell.type = "number" -> NumberToString(cell.val)
    [] cell.type = "boolean" ->
         IF cell.val THEN <<"t", "r", "u", "e">> ELSE <<"f", "a", "l", "s", "e">>

\* truthiness of a cell value, as `if (cellV)` tests it
Truthy(cell) ==
  CASE cell.type = "string" -> cell.val # <<>>
    [] cell.type = "number" -> cell.val # 0
    [] cell.type = "boolean" -> cell.val

\* valA > valB for two cell values of one type
Greater(a, b) ==
  CASE a.type = "string" /\ b.type = "string" -> StringLess(b.val, a.val)
    [] a.type = "number" /\ b.type = "number" -> a.val > b.val
    [] a.type = "boolean" /\ b.type = "boolean" -> a.val /\ ~b.val
    [] OTHER -> FALSE

\* The rows the parent can supply.  Rows 1..3 are the rows of the scenario
\* [{id:1,h1:'b',h2:2},{id:2,h1:'a',h2:2},{id:3,h1:'a',h2:1}]; row 4 equals
\* row 3 on h1 and h2 and carries a boolean field h3; row 5 has an upper-case
\* letter and a two-digit number; row 6 has no id field.
RowPool ==
  <<
    ("id" :> Num(1)) @@ ("h1" :> Str(<<"b">>)) @@ ("h2" :> Num(2)),
    ("id" :> Num(2)) @@ ("h1" :> Str(<<"a">>)) @@ ("h2" :> Num(2)),
    ("id" :> Num(3)) @@ ("h1" :> Str(<<"a">>)) @@ ("h2" :> Num(1)),
    ("id" :> Num(4)) @@ ("h1" :> Str(<<"a">>)) @@ ("h2" :> Num(1))
       @@ ("h3" :> Bool(TRUE)),
    ("id" :> Num(5)) @@ ("h1" :> Str(<<"A", "b">>)) @@ ("h2" :> Num(12))
       @@ ("h3" :> Bool(FALSE)),
    ("h1" :> Str(<<"c">>)) @@ ("h2" :> Num(3))
  >>

RowRefs == 1..Len(RowPool)

\* the column keys of props.headers
Headers == <<"h1", "h2">>

HeaderSet == {Headers[i] : i \in 1..Len(Headers)}

\* the key of the column descriptor the parent adds after setup, and every key
\* sortDirection is ever read at; a key that setup did not seed reads as
\* undefined
AddedHeader == "id"

HeaderKeys == HeaderSet \cup {AddedHeader}

(***************************************************************************)
(* Filter specifications (props.filters)                                   *)
(***************************************************************************)
\* a plain filter string
Plain(s) == [type |-> "string", str |-> s]

\* a {value, modifier} pair; the modifier is named, see modifier below
Pair(s, m) == [type |-> "object", value |-> s, modifier |-> m]

\* pairs the parent left incomplete: an object without value, one without
\* modifier
PairNoValue(m) == [type |-> "object", modifier |-> m]

PairNoModifier(s) == [type |-> "object", value |-> s]

\* The modifier of the component's usage example: a true cell matches the
\* filter text 'yes', a false one 'no' (compared in lower case).
modifier(name, filterV, cellV) ==
  LET v == toLowerCase(filterV)
  IN  IF Truthy(cellV) THEN v = <<"y", "e", "s">> ELSE v = <<"n", "o">>

NoFilters == <<>>

\* the filter specifications the parent switches between while sorting
MainFilterSpecs ==
  { NoFilters,
    "h1" :> Plain(<<"a">>),
    ("global" :> Plain(<<>>)) @@ ("h1" :> Plain(<<>>)) }

\* the filter specifications the filter step is checked on
FilterSpecs ==
  { NoFilters,
    "h1" :> Plain(<<"a">>),
    ("global" :> Plain(<<>>)) @@ ("h1" :> Plain(<<>>)),
    "global" :> Plain(<<"B">>),
    "h3" :> Pair(<<"N", "o">>, "yesNo"),
    "h3" :> Pair(<<>>, "yesNo"),
    "h2" :> Plain(<<"2">>),
    ("global" :> Plain(<<"1">>)) @@ ("h1" :> Plain(<<"A">>)) }

\* Object.keys(props.filters)
definedFilters(F) == DOMAIN F

\* the callback with the filter strings compared as typed, not lower-cased
RowKeptCaseSensitive(dataRow, F) ==
  LET isGlobalFilter == "global" \in DOMAIN F
      isGloballyFilteredOut ==
        /\ isGlobalFilter
        /\ Len(F["global"].str) # 0
        /\ ~ \E k \in DOMAIN dataRow :
               includes(toLowerCase(String(dataRow[k])), F["global"].str)
      isFilteredOut ==
        \E dataKey \in DOMAIN dataRow :
          /\ dataKey \in DOMAIN F
          /\ LET filterValue == F[dataKey]
                 dataValue == dataRow[dataKey]
             IN  IF filterValue.type = "object"
                   THEN /\ Len(filterValue.value) # 0
                        /\ ~modifier(filterValue.modifier, filterValue.value, dataValue)
                   ELSE ~includes(toLowerCase(String(dataValue)), filterValue.str)
  IN  ~isFilteredOut /\ ~isGloballyFilteredOut

\* the callback of props.data.filter: TRUE when dataRow is kept
RowKept(dataRow, F) ==
  LET isGlobalFilter == "global" \in DOMAIN F
      isGloballyFilteredOut ==
        /\ isGlobalFilter
        /\ Len(F["global"].str) # 0
        /\ ~ \E k \in DOMAIN dataRow :
               includes(toLowerCase(String(dataRow[k])), toLowerCase(F["global"].str))
      isFilteredOut ==
        \E dataKey \in DOMAIN dataRow :
          /\ dataKey \in DOMAIN F
          /\ LET filterValue == F[dataKey]
                 dataValue == dataRow[dataKey]
             IN  IF filterValue.type = "object"
                   THEN /\ Len(filterValue.value) # 0
                        /\ ~modifier(filterValue.modifier, filterValue.value, dataValue)
                   ELSE ~includes(toLowerCase(String(dataValue)),
                                  toLowerCase(filterValue.str))
  IN  ~isFilteredOut /\ ~isGloballyFilteredOut

\* the array turned round
Reversed(rows) == [i \in 1..Len(rows) |-> rows[Len(rows) + 1 - i]]

\* a filter step that collects the kept rows back to front
FilterRowsReversed(rows, F) ==
  IF Cardinality(DOMAIN F) = 0
    THEN rows
    ELSE Reversed(SelectSeq(rows, LAMBDA r : RowKept(RowPool[r], F)))

\* a filter step that starts at the second row
FilterRowsSkipFirst(rows, F) ==
  IF Cardinality(DOMAIN F) = 0
    THEN rows
    ELSE IF rows = <<>> THEN <<>>
    ELSE SelectSeq(Tail(rows), LAMBDA r : RowKept(RowPool[r], F))

\* the filter step of updateFilteredData on an array of row references
FilterRows(rows, F) ==
  IF Cardinality(definedFilters(F)) = 0
    THEN rows
    ELSE SelectSeq(rows, LAMBDA r : RowKept(RowPool[r], F))

\* The callback throws a TypeError on dataRow: the row has a key whose filter
\* is an object and filterValue.value.length reads a property of undefined,
\* or the value is not empty and filterValue.modifier is not a function.
RowThrows(dataRow, F) ==
  \E dataKey \in (DOMAIN dataRow) \cap (DOMAIN F) :
    LET filterValue == F[dataKey]
    IN  /\ filterValue.type = "object"
        /\ \/ "value" \notin DOMAIN filterValue
           \/ /\ Len(filterValue.value) # 0
              /\ "modifier" \notin DOMAIN filterValue

\* props.data.filter throws: the callback is run on each row in turn
FilterThrows(rows, F) ==
  /\ Cardinality(definedFilters(F)) # 0
  /\ \E i \in 1..Len(rows) : RowThrows(RowPool[rows[i]], F)

(***************************************************************************)
(* Sorting helpers                                                         *)
(***************************************************************************)
SortDirections == {"None", "Ascending", "Descending"}

\* Array.prototype.indexOf, 1-based; 0 stands for -1 (not found)
indexOf(seq, x) ==
  IF \E i \in 1..Len(seq) : seq[i] = x
    THEN CHOOSE i \in 1..Len(seq) : seq[i] = x /\ \A j \in 1..(i - 1) : seq[j] # x
    ELSE 0

\* Array.prototype.splice(idx, 1); splice(-1, 1) removes the last element
splice(seq, idx) ==
  LET at == IF idx = 0 THEN Len(seq) ELSE idx
  IN  [i \in 1..(Len(seq) - (IF at = 0 THEN 0 ELSE 1)) |->
         IF i < at THEN seq[i] ELSE seq[i + 1]]

\* the comparator with the two results exchanged
compareSwapped(rowA, rowB, header, orderCorrection) ==
  LET valA == RowPool[rowA][header]
      valB == RowPool[rowB][header]
  IN  IF Greater(valA, valB) THEN -orderCorrection
      ELSE IF Greater(valB, valA) THEN orderCorrection
      ELSE 0

\* the comparator handed to Array.prototype.sort in updateOrder
compare(rowA, rowB, header, orderCorrection) ==
  LET valA == RowPool[rowA][header]
      valB == RowPool[rowB][header]
  IN  IF Greater(valA, valB) THEN orderCorrection
      ELSE IF Greater(valB, valA) THEN -orderCorrection
      ELSE 0

\* the insertion that puts x in front of the elements it compares equal to
RECURSIVE InsertSortedBeforeEqual(_, _, _, _)
InsertSortedBeforeEqual(sorted, x, header, orderCorrection) ==
  IF sorted = <<>> THEN <<x>>
  ELSE LET last == sorted[Len(sorted)]
       IN  IF compare(last, x, header, orderCorrection) >= 0
             THEN Append(InsertSortedBeforeEqual(
                           SubSeq(sorted, 1, Len(sorted) - 1), x,
                           header, orderCorrection), last)
             ELSE Append(sorted, x)

\* x put into an already sorted array, behind every element that does not
\* compare greater than it
RECURSIVE InsertSorted(_, _, _, _)
InsertSorted(sorted, x, header, orderCorrection) ==
  IF sorted = <<>> THEN <<x>>
  ELSE LET last == sorted[Len(sorted)]
       IN  IF compare(last, x, header, orderCorrection) > 0
             THEN Append(InsertSorted(SubSeq(sorted, 1, Len(sorted) - 1), x,
                                      header, orderCorrection), last)
             ELSE Append(sorted, x)

\* Array.prototype.sort with that comparator: a stable sort
RECURSIVE sort(_, _, _)
sort(rows, header, orderCorrection) ==
  IF rows = <<>> THEN <<>>
  ELSE InsertSorted(sort(SubSeq(rows, 1, Len(rows) - 1), header, orderCorrection),
                    rows[Len(rows)], header, orderCorrection)

(***************************************************************************)
(* The component's state                                                   *)
(***************************************************************************)
VARIABLES
  data,                 \* props.data: the parent's array, as it is now
  suppliedData,         \* the rows of props.data in the order the parent put them
  filters,              \* props.filters
  displayedData,        \* displayedData.value
  aliased,              \* displayedData.value is the very array props.data
  sortDirection,        \* sortDirection[header]
  sortInvocationOrder,  \* sortInvocationOrder
  currentPage,          \* currentPage.value
  expandedRows,         \* expandedRows.value: property key -> flag
  headers,              \* props.headers, the column keys in their order
  lastEvent             \* history: the event that led to this state and the
                        \* page before it; of a header click also the column,
                        \* its direction and its place in sortInvocationOrder
                        \* before the click; of an expander click the row, the
                        \* number of clicks on it in a row (1 or 2) and its
                        \* state before the first of them; threw tells that
                        \* the handler ended in a TypeError

vars == <<data, suppliedData, filters, displayedData, aliased, sortDirection,
          sortInvocationOrder, currentPage, expandedRows, headers, lastEvent>>

\* props.maxRows: rows per page
maxRows == 2

\* the longest array the paginator is examined on
MaxPageRows == 5

\* the arrays the parent hands over as a whole
SuppliedArrays == {<<>>, <<1, 2, 3>>}

\* the rows the parent pushes one by one
PushRows == 1..4

\* every array of at most MaxRows distinct rows
AllArrays ==
  UNION { { a \in [1..n -> RowRefs] : \A i, j \in 1..n : i # j => a[i] # a[j] }
          : n \in 0..MaxRows }

\* props.dataIdKey
dataIdKey == "id"

\* dataEntry[props.dataIdKey] as a property key of expandedRows: the string
\* form of the value, 'undefined' for a row without that field
rowKey(r) ==
  IF dataIdKey \in DOMAIN RowPool[r]
    THEN String(RowPool[r][dataIdKey])
    ELSE <<"u", "n", "d", "e", "f", "i", "n", "e", "d">>

\* expandedRows[key] as v-if reads it: a missing property is falsy
isExpandedIn(er, key) == key \in DOMAIN er /\ er[key]

isExpanded(r) == isExpandedIn(expandedRows, rowKey(r))

\* the click that also collapses every other row
toggleExpandedAccordion(er, key) ==
  [k \in (DOMAIN er) \cup {key} |->
     IF k = key THEN ~isExpandedIn(er, key) ELSE FALSE]

\* expandedRows[key] = !expandedRows[key]
toggleExpanded(er, key) ==
  [k \in (DOMAIN er) \cup {key} |->
     IF k = key THEN ~isExpandedIn(er, key) ELSE er[k]]

\* The mutable state the functions of the component work on, as one record.
Store ==
  [data |-> data, filters |-> filters, displayedData |-> displayedData,
   aliased |-> aliased, sortDirection |-> sortDirection,
   sortInvocationOrder |-> sortInvocationOrder, currentPage |-> currentPage]

\* the filter step without the reset of the paginator
updateFilteredDataNoReset(st) ==
  [st EXCEPT !.displayedData = FilterRows(st.data, st.filters),
             !.aliased = (Cardinality(definedFilters(st.filters)) = 0)]

\* the filter step run on the rows on display instead of props.data
updateFilteredDataOfDisplayed(st) ==
  [st EXCEPT !.currentPage = 1,
             !.displayedData = FilterRows(st.displayedData, st.filters),
             !.aliased = FALSE]

\* updateFilteredData(): reset the paginator, then filter props.data; with no
\* filter key displayedData.value becomes props.data itself, not a copy; when
\* the filter callback throws, displayedData.value is not assigned
updateFilteredData(st) ==
  IF FilterThrows(st.data, st.filters)
    THEN [st EXCEPT !.currentPage = 1]
    ELSE [st EXCEPT !.currentPage = 1,
                    !.displayedData = FilterRows(st.data, st.filters),
                    !.aliased = (Cardinality(definedFilters(st.filters)) = 0)]

\* updateOrder that sorts ascending whatever orderCorrection it is given
updateOrderAscendingOnly(st, header, orderCorrection) ==
  IF st.sortDirection[header] = "None"
    THEN st
    ELSE LET sorted == sort(st.displayedData, header, 1)
         IN  [st EXCEPT !.data = IF st.aliased THEN sorted ELSE @,
                        !.displayedData = sorted,
                        !.aliased = FALSE]

\* updateOrder(header, orderCorrection): sorts displayedData.value in place (and
\* with it props.data when the two are one array), then stores a copy
updateOrder(st, header, orderCorrection) ==
  IF st.sortDirection[header] = "None"
    THEN st
    ELSE LET sorted == sort(st.displayedData, header, orderCorrection)
         IN  [st EXCEPT !.data = IF st.aliased THEN sorted ELSE @,
                        !.displayedData = sorted,
                        !.aliased = FALSE]

\* sortRows() without argument: updateOrder(header) for each header of
\* sortInvocationOrder from position i on, orderCorrection left to its default 1
RECURSIVE sortRowsFrom(_, _)
sortRowsFrom(st, i) ==
  IF i > Len(st.sortInvocationOrder)
    THEN st
    ELSE sortRowsFrom(updateOrder(st, st.sortInvocationOrder[i], 1), i + 1)

\* applyModifiers that forgets the sort state instead of sorting again
applyModifiersClearingSort(st) ==
  updateFilteredData(
    [st EXCEPT !.sortDirection = [h \in DOMAIN st.sortDirection |-> "None"],
               !.sortInvocationOrder = <<>>])

\* applyModifiers()
applyModifiers(st) ==
  IF FilterThrows(st.data, st.filters)
    THEN updateFilteredData(st)
    ELSE sortRowsFrom(updateFilteredData(st), 1)

\* getOrderCorrection with a two-state toggle: Descending goes back to Ascending
getOrderCorrectionTwoState(st, header) ==
  CASE st.sortDirection[header] = "Ascending" ->
         [st |-> [st EXCEPT !.sortDirection[header] = "Descending"], ret |-> -1]
    [] st.sortDirection[header] = "Descending" ->
         [st |-> [st EXCEPT !.sortDirection[header] = "Ascending"], ret |-> 1]
    [] st.sortDirection[header] = "None" ->
         [st |-> [st EXCEPT !.sortDirection[header] = "Ascending"], ret |-> 1]
    [] OTHER -> [st |-> st, ret |-> 1]

\* getOrderCorrection(header): the store after it and the number it returns;
\* a direction that is none of the three cases returns undefined, for which
\* updateOrder's parameter default 1 stands
getOrderCorrection(st, header) ==
  CASE st.sortDirection[header] = "Ascending" ->
         [st |-> [st EXCEPT !.sortDirection[header] = "Descending"], ret |-> -1]
    [] st.sortDirection[header] = "Descending" ->
         [st |-> applyModifiers(
                   [st EXCEPT !.sortDirection[header] = "None",
                              !.sortInvocationOrder =
                                 splice(@, indexOf(@, header))]),
          ret |-> 0]
    [] st.sortDirection[header] = "None" ->
         [st |-> [st EXCEPT !.sortDirection[header] = "Ascending"], ret |-> 1]
    [] OTHER -> [st |-> st, ret |-> 1]

\* sortRows that pushes the header without removing its earlier entry
sortRowsNoSplice(st, maybeHeader) ==
  LET pushed == [st EXCEPT !.sortInvocationOrder = Append(@, maybeHeader)]
      corrected == getOrderCorrection(pushed, maybeHeader)
  IN  updateOrder(corrected.st, maybeHeader, corrected.ret)

\* sortRows that leaves a header already in sortInvocationOrder at its place
sortRowsKeepPlace(st, maybeHeader) ==
  LET sortOrderIdx == indexOf(st.sortInvocationOrder, maybeHeader)
      pushed == IF sortOrderIdx # 0
                  THEN st
                  ELSE [st EXCEPT !.sortInvocationOrder = Append(@, maybeHeader)]
      corrected == getOrderCorrection(pushed, maybeHeader)
  IN  updateOrder(corrected.st, maybeHeader, corrected.ret)

\* sortRows(maybeHeader) with a header
sortRows(st, maybeHeader) ==
  LET sortOrderIdx == indexOf(st.sortInvocationOrder, maybeHeader)
      spliced == IF sortOrderIdx # 0
                   THEN splice(st.sortInvocationOrder, sortOrderIdx)
                   ELSE st.sortInvocationOrder
      pushed == [st EXCEPT !.sortInvocationOrder = Append(spliced, maybeHeader)]
      corrected == getOrderCorrection(pushed, maybeHeader)
  IN  updateOrder(corrected.st, maybeHeader, corrected.ret)

\* the page count rounded down instead of up
paginatorMaxPageFloor == Len(displayedData) \div maxRows

\* paginatorMaxPage
paginatorMaxPage == (Len(displayedData) + maxRows - 1) \div maxRows

\* paginatorCurrentMinItem and paginatorCurrentMaxItem
paginatorCurrentMinItem ==
  (currentPage - 1) * maxRows + (IF Len(displayedData) # 0 THEN 1 ELSE 0)

paginatorCurrentMaxItem ==
  IF currentPage * maxRows < Len(displayedData)
    THEN currentPage * maxRows
    ELSE Len(displayedData)

\* the v-if with the upper limit included
isRenderedInclusive(rowIdx, page) ==
  \/ maxRows = 0
  \/ rowIdx >= maxRows * (page - 1) /\ rowIdx <= maxRows * page

\* the v-if of a body row: the row at 0-based index rowIdx is rendered on page
isRendered(rowIdx, page) ==
  \/ maxRows = 0
  \/ rowIdx >= maxRows * (page - 1) /\ rowIdx < maxRows * page

\* the rows of displayedData the template renders on page, in their order
RECURSIVE pageRowsFrom(_, _)
pageRowsFrom(page, i) ==
  IF i > Len(displayedData)
    THEN <<>>
    ELSE (IF isRendered(i - 1, page) THEN <<displayedData[i]>> ELSE <<>>)
           \o pageRowsFrom(page, i + 1)

pageRows(page) == pageRowsFrom(page, 1)

\* the variables take the values of store st
Becomes(st) ==
  /\ data' = st.data
  /\ filters' = st.filters
  /\ displayedData' = st.displayedData
  /\ aliased' = st.aliased
  /\ sortDirection' = st.sortDirection
  /\ sortInvocationOrder' = st.sortInvocationOrder
  /\ currentPage' = st.currentPage

(***************************************************************************)
(* Initial state and events                                                *)
(***************************************************************************)
\* an event that is no header click
Event(op) ==
  [op |-> op, header |-> "", run |-> 0, from |-> "", pos |-> 0, row |-> 0,
   page |-> currentPage, threw |-> FALSE]

\* The number of header clicks on column header in a row, the first of them
\* made when its direction was None, that a further click on it completes
\* (0 when the run did not start from None; a run ends with its third click).
RunAfter(header) ==
  IF sortDirection[header] = "None" THEN 1
  ELSE IF /\ lastEvent.op = "toggle"
          /\ lastEvent.header = header
          /\ lastEvent.run \in {1, 2}
         THEN lastEvent.run + 1
         ELSE 0

\* setup and onBeforeMount: every header's direction None, no invocation
\* order, page 1, updateFilteredData()
Mounted(rows, F) ==
  LET st == updateFilteredData(
              [data |-> rows, filters |-> F, displayedData |-> <<>>,
               aliased |-> FALSE,
               sortDirection |->
                 [h \in HeaderKeys |->
                    IF h \in HeaderSet THEN "None" ELSE "undefined"],
               sortInvocationOrder |-> <<>>, currentPage |-> 1])
  IN  /\ suppliedData = rows
      /\ data = st.data
      /\ filters = st.filters
      /\ displayedData = st.displayedData
      /\ aliased = st.aliased
      /\ sortDirection = st.sortDirection
      /\ sortInvocationOrder = st.sortInvocationOrder
      /\ currentPage = st.currentPage
      /\ expandedRows = [k \in {rowKey(rows[i]) : i \in 1..Len(rows)} |-> FALSE]
      /\ headers = Headers
      /\ lastEvent = [op |-> "mount", header |-> "", run |-> 0, from |-> "",
                      pos |-> 0, row |-> 0, page |-> 1,
                      threw |-> FilterThrows(rows, F)]

Init == \E rows \in SuppliedArrays, F \in MainFilterSpecs : Mounted(rows, F)

\* a click on the header cell of column header: sortRows(header)
ToggleSort(header) ==
  /\ Becomes(sortRows(Store, header))
  /\ lastEvent' = [op |-> "toggle", header |-> header, run |-> RunAfter(header),
                   from |-> sortDirection[header],
                   pos |-> indexOf(sortInvocationOrder, header),
                   row |-> 0, page |-> currentPage,
                   threw |-> /\ sortDirection[header] = "Descending"
                             /\ FilterThrows(data, filters)]
  /\ UNCHANGED <<suppliedData, expandedRows, headers>>

\* the parent changes props.filters; the watcher runs applyModifiers
FilterChange(F) ==
  /\ Becomes(applyModifiers([Store EXCEPT !.filters = F]))
  /\ lastEvent' = [Event("filter") EXCEPT !.threw = FilterThrows(data, F)]
  /\ UNCHANGED <<suppliedData, expandedRows, headers>>

\* the push that seeds expandedRows anew from the grown array
DataPushReseed(r) ==
  /\ Len(data) < MaxRows
  /\ \A i \in 1..Len(data) : data[i] # r
  /\ suppliedData' = Append(suppliedData, r)
  /\ Becomes(applyModifiers([Store EXCEPT !.data = Append(data, r)]))
  /\ lastEvent' = Event("data")
  /\ expandedRows' = [k \in {rowKey(q) : q \in {data[i] : i \in 1..Len(data)} \cup {r}} |-> FALSE]
  /\ UNCHANGED headers

\* the parent pushes row r onto props.data; the watcher runs applyModifiers
DataPush(r) ==
  /\ Len(data) < MaxRows
  /\ \A i \in 1..Len(data) : data[i] # r
  /\ suppliedData' = Append(suppliedData, r)
  /\ Becomes(applyModifiers([Store EXCEPT !.data = Append(data, r)]))
  /\ lastEvent' = [Event("data") EXCEPT
                     !.threw = FilterThrows(Append(data, r), filters)]
  /\ UNCHANGED <<expandedRows, headers>>

\* the parent hands over another array; the watcher runs applyModifiers
DataReplace(rows) ==
  /\ suppliedData' = rows
  /\ Becomes(applyModifiers([Store EXCEPT !.data = rows]))
  /\ lastEvent' = [Event("data") EXCEPT !.threw = FilterThrows(rows, filters)]
  /\ UNCHANGED <<expandedRows, headers>>

\* the paginator buttons
FirstPage ==
  /\ currentPage' = 1
  /\ lastEvent' = Event("page")
  /\ UNCHANGED <<data, suppliedData, filters, displayedData, aliased,
                 sortDirection, sortInvocationOrder, expandedRows, headers>>

PreviousPage ==
  /\ currentPage' = IF currentPage - 1 > 1 THEN currentPage - 1 ELSE 1
  /\ lastEvent' = Event("page")
  /\ UNCHANGED <<data, suppliedData, filters, displayedData, aliased,
                 sortDirection, sortInvocationOrder, expandedRows, headers>>

NextPage ==
  /\ currentPage' = IF currentPage + 1 < paginatorMaxPage
                      THEN currentPage + 1 ELSE paginatorMaxPage
  /\ lastEvent' = Event("page")
  /\ UNCHANGED <<data, suppliedData, filters, displayedData, aliased,
                 sortDirection, sortInvocationOrder, expandedRows, headers>>

LastPage ==
  /\ currentPage' = paginatorMaxPage
  /\ lastEvent' = Event("page")
  /\ UNCHANGED <<data, suppliedData, filters, displayedData, aliased,
                 sortDirection, sortInvocationOrder, expandedRows, headers>>

\* A click on the expander cell of row r, which is rendered on the current
\* page: expandedRows[key] = !expandedRows[key]
ExpanderClick(r) ==
  /\ \E i \in 1..Len(displayedData) :
       displayedData[i] = r /\ isRendered(i - 1, currentPage)
  /\ expandedRows' = toggleExpanded(expandedRows, rowKey(r))
  /\ LET again == /\ lastEvent.op = "expand"
                  /\ lastEvent.run = 1
                  /\ rowKey(lastEvent.row) = rowKey(r)
     IN  lastEvent' =
           [op |-> "expand", header |-> "", pos |-> 0, row |-> r,
            page |-> currentPage, threw |-> FALSE,
            run |-> IF again THEN 2 ELSE 1,
            from |-> IF again THEN lastEvent.from
                     ELSE IF isExpanded(r) THEN "expanded" ELSE "collapsed"]
  /\ UNCHANGED <<data, suppliedData, filters, displayedData, aliased,
                 sortDirection, sortInvocationOrder, currentPage, headers>>

\* the list with element x put in at place idx
insertAt(seq, idx, x) ==
  [i \in 1..(Len(seq) + 1) |->
     IF i < idx THEN seq[i] ELSE IF i = idx THEN x ELSE seq[i - 1]]

\* the drag that also runs the filter and sort steps again
ReorderColumnsRecompute(oldIndex, newIndex) ==
  /\ oldIndex \in 1..Len(headers)
  /\ newIndex \in 1..Len(headers)
  /\ oldIndex # newIndex
  /\ headers' = insertAt(splice(headers, oldIndex), newIndex, headers[oldIndex])
  /\ lastEvent' = [Event("reorder") EXCEPT !.header = headers[oldIndex]]
  /\ Becomes(applyModifiers(Store))
  /\ UNCHANGED <<suppliedData, expandedRows>>

\* The user drags the header at place oldIndex to place newIndex: draggable
\* moves that element of the list it is bound to, props.headers
ReorderColumns(oldIndex, newIndex) ==
  /\ oldIndex \in 1..Len(headers)
  /\ newIndex \in 1..Len(headers)
  /\ oldIndex # newIndex
  /\ headers' = insertAt(splice(headers, oldIndex), newIndex, headers[oldIndex])
  /\ lastEvent' = [Event("reorder") EXCEPT !.header = headers[oldIndex]]
  /\ UNCHANGED <<data, suppliedData, filters, displayedData, aliased,
                 sortDirection, sortInvocationOrder, currentPage, expandedRows>>

\* The parent pushes the descriptor of column AddedHeader onto props.headers;
\* the component watches neither the list nor its length
AddColumn ==
  /\ \A i \in 1..Len(headers) : headers[i] # AddedHeader
  /\ headers' = Append(headers, AddedHeader)
  /\ lastEvent' = [Event("column") EXCEPT !.header = AddedHeader]
  /\ UNCHANGED <<data, suppliedData, filters, displayedData, aliased,
                 sortDirection, sortInvocationOrder, currentPage, expandedRows>>

\* the events of a table without paginator clicks
Next ==
  \/ \E header \in HeaderSet : ToggleSort(header)
  \/ \E F \in MainFilterSpecs : FilterChange(F)
  \/ \E r \in PushRows : DataPush(r)
  \/ \E rows \in SuppliedArrays : DataReplace(rows)

Spec == Init /\ [][Next]_vars

\* the same with the paginator's buttons
PageClick == FirstPage \/ PreviousPage \/ NextPage \/ LastPage

PagedNext == Next \/ PageClick

PagedSpec == Init /\ [][PagedNext]_vars

\* The filter step alone: the table is mounted on any array and any filter
\* specification, and the parent then changes the filter specification.
FilterInit == \E rows \in AllArrays, F \in FilterSpecs : Mounted(rows, F)

FilterNext == \E F \in FilterSpecs : FilterChange(F)

FilterSpec == FilterInit /\ [][FilterNext]_vars

\* The paginator alone: the table is mounted on any array of at most
\* MaxPageRows rows, unfiltered, and the user clicks the paginator's buttons.
PageArrays ==
  UNION { { a \in [1..n -> RowRefs] : \A i, j \in 1..n : i # j => a[i] # a[j] }
          : n \in 0..MaxPageRows }

PageInit == \E rows \in PageArrays : Mounted(rows, NoFilters)

PageSpec == PageInit /\ [][PageClick]_vars

\* Row expansion: the parent replaces the array and pushes rows, one of them
\* without the identity field, and the user pages and clicks expanders.
ExpandPushRows == {1, 2, 6}

ExpandInit == \E rows \in SuppliedArrays : Mounted(rows, NoFilters)

ExpandNext ==
  \/ \E r \in RowRefs : ExpanderClick(r)
  \/ \E r \in ExpandPushRows : DataPush(r)
  \/ \E rows \in SuppliedArrays : DataReplace(rows)
  \/ PageClick

ExpandSpec == ExpandInit /\ [][ExpandNext]_vars

\* Column reordering: on a table of three rows the user drags headers, sorts,
\* pages and expands rows, and the parent changes the filter specification.
ReorderInit == \E F \in MainFilterSpecs : Mounted(<<1, 2, 3>>, F)

ReorderNext ==
  \/ \E oldIndex, newIndex \in 1..Len(Headers) :
       ReorderColumns(oldIndex, newIndex)
  \/ \E header \in HeaderSet : ToggleSort(header)
  \/ \E F \in MainFilterSpecs : FilterChange(F)
  \/ \E r \in RowRefs : ExpanderClick(r)
  \/ PageClick

ReorderSpec == ReorderInit /\ [][ReorderNext]_vars

\* Incomplete filter pairs: the table is mounted unfiltered on any array and
\* the parent then supplies filter specifications, some with a pair that
\* lacks its value or its modifier.
MalformedFilterSpecs ==
  { "h3" :> PairNoValue("yesNo"),
    "h1" :> PairNoValue("yesNo"),
    "h3" :> PairNoModifier(<<>>),
    "h3" :> PairNoModifier(<<"n", "o">>),
    "h3" :> Pair(<<"N", "o">>, "yesNo"),
    NoFilters }

MalformedInit == \E rows \in AllArrays : Mounted(rows, NoFilters)

MalformedNext == \E F \in MalformedFilterSpecs : FilterChange(F)

MalformedSpec == MalformedInit /\ [][MalformedNext]_vars

\* A column added after setup: the parent adds the descriptor, the user
\* clicks the rendered headers, and the parent changes filters and data.
ColumnNext ==
  \/ AddColumn
  \/ \E i \in 1..(Len(Headers) + 1) :
       i <= Len(headers) /\ ToggleSort(headers[i])
  \/ \E F \in MainFilterSpecs : FilterChange(F)
  \/ \E rows \in SuppliedArrays : DataReplace(rows)

ColumnSpec == Init /\ [][ColumnNext]_vars

\* Every kind of event on one table: header clicks, filter changes, data
\* replacement, paginator and expander clicks, and header drags.
FrameFilterSpecs == {NoFilters, "h1" :> Plain(<<"a">>)}

FrameInit == Mounted(<<1, 2, 3>>, NoFilters)

FrameNext ==
  \/ \E header \in HeaderSet : ToggleSort(header)
  \/ \E F \in FrameFilterSpecs : FilterChange(F)
  \/ \E rows \in SuppliedArrays : DataReplace(rows)
  \/ PageClick
  \/ \E r \in RowRefs : ExpanderClick(r)
  \/ \E oldIndex, newIndex \in 1..Len(Headers) :
       ReorderColumns(oldIndex, newIndex)

FrameSpec == FrameInit /\ [][FrameNext]_vars

(***************************************************************************)
(* Vocabulary of the properties                                            *)
(***************************************************************************)
Range(seq) == {seq[i] : i \in 1..Len(seq)}

NoDuplicates(seq) == \A i, j \in 1..Len(seq) : i # j => seq[i] # seq[j]

Last(seq) == seq[Len(seq)]

\* the cycle None -> Ascending -> Descending -> None
CycleNext(d) ==
  CASE d = "None" -> "Ascending"
    [] d = "Ascending" -> "Descending"
    [] d = "Descending" -> "None"

\* the values of two rows in a column are equal / in strictly rising order
SameValue(x, y, col) ==
  /\ ~Greater(RowPool[x][col], RowPool[y][col])
  /\ ~Greater(RowPool[y][col], RowPool[x][col])

Rising(x, y, col) == Greater(RowPool[y][col], RowPool[x][col])

NonDecreasing(seq, col) ==
  \A i \in 1..(Len(seq) - 1) : ~Greater(RowPool[seq[i]][col], RowPool[seq[i + 1]][col])

NonIncreasing(seq, col) ==
  \A i \in 1..(Len(seq) - 1) : ~Greater(RowPool[seq[i + 1]][col], RowPool[seq[i]][col])

\* the last event was a header click on column h
Toggled(h) == lastEvent.op = "toggle" /\ lastEvent.header = h

(***************************************************************************)
(* C1  Each header click moves the clicked column's direction one step     *)
(* along None -> Ascending -> Descending -> None, and after three clicks   *)
(* in a row on one column, the first made while it was None, the column    *)
(* is None again and not in sortInvocationOrder, whatever else is active.  *)
(***************************************************************************)
C1_ToggleCycle ==
  /\ [][\A h \in HeaderSet :
          ToggleSort(h) => sortDirection'[h] = CycleNext(sortDirection[h])]_vars
  /\ [](\A h \in HeaderSet :
          /\ (Toggled(h) /\ lastEvent.run = 1 => sortDirection[h] = "Ascending")
          /\ (Toggled(h) /\ lastEvent.run = 2 => sortDirection[h] = "Descending")
          /\ (Toggled(h) /\ lastEvent.run = 3 =>
                sortDirection[h] = "None" /\ h \notin Range(sortInvocationOrder)))

\* the third click of such a run has happened while another column is active
C1_Witness ==
  /\ lastEvent.op = "toggle"
  /\ lastEvent.run = 3
  /\ sortDirection[lastEvent.header] = "None"
  /\ Len(sortInvocationOrder) = 1

(***************************************************************************)
(* C2  sortInvocationOrder never holds a column twice, and a column is in  *)
(* it exactly when its direction is not None.                              *)
(***************************************************************************)
C2_OrderMatchesDirections ==
  /\ NoDuplicates(sortInvocationOrder)
  /\ \A h \in HeaderSet :
       h \in Range(sortInvocationOrder) <=> sortDirection[h] # "None"

\* two columns are active after one was clicked again
C2_Witness ==
  /\ lastEvent.op = "toggle"
  /\ sortDirection[lastEvent.header] = "Descending"
  /\ Len(sortInvocationOrder) = 2

(***************************************************************************)
(* C3  Primacy: with column A clicked once and then column B once, from no *)
(* active sort, displayedData is ordered by B ascending, rows equal on B   *)
(* by A ascending, rows equal on both as the filtered source has them; on  *)
(* the three scenario rows h2 then h1 gives ids 3, 2, 1.                   *)
(***************************************************************************)
\* seq holds the rows of input ordered by column primary, then column tie,
\* then place in input
PrimaryThenTie(seq, primary, tie, input) ==
  /\ Len(seq) = Len(input)
  /\ Range(seq) = Range(input)
  /\ \A i, j \in 1..Len(seq) :
       i < j =>
         \/ Rising(seq[i], seq[j], primary)
         \/ SameValue(seq[i], seq[j], primary) /\ Rising(seq[i], seq[j], tie)
         \/ /\ SameValue(seq[i], seq[j], primary)
            /\ SameValue(seq[i], seq[j], tie)
            /\ indexOf(input, seq[i]) < indexOf(input, seq[j])

\* C3: order <<A, B>>, both Ascending: ordered by B, then A, then source order
C3_Primacy ==
  /\ \A A, B \in HeaderSet :
       ( /\ sortInvocationOrder = <<A, B>>
         /\ A # B
         /\ sortDirection[A] = "Ascending"
         /\ sortDirection[B] = "Ascending" )
       => PrimaryThenTie(displayedData, B, A, FilterRows(suppliedData, filters))
  /\ ( /\ sortInvocationOrder = <<"h2", "h1">>
       /\ sortDirection["h1"] = "Ascending"
       /\ sortDirection["h2"] = "Ascending"
       /\ Range(displayedData) = {1, 2, 3} )
     => displayedData = <<3, 2, 1>>

\* the scenario: rows 1, 2, 3 unfiltered, h2 clicked, then h1 clicked
C3_Witness ==
  /\ suppliedData = <<1, 2, 3>>
  /\ filters = NoFilters
  /\ Toggled("h1")
  /\ lastEvent.run = 1
  /\ sortInvocationOrder = <<"h2", "h1">>
  /\ sortDirection["h2"] = "Ascending"
  /\ displayedData = <<3, 2, 1>>

(***************************************************************************)
(* C4  After a change of the filter specification or of the source data,   *)
(* the values of displayedData along the last column of                    *)
(* sortInvocationOrder are non-decreasing if that column is Ascending and  *)
(* non-increasing if it is Descending.                                     *)
(***************************************************************************)
C4_ResortKeepsDirection ==
  (lastEvent.op \in {"filter", "data"} /\ sortInvocationOrder # <<>>) =>
    LET h == Last(sortInvocationOrder)
    IN  /\ sortDirection[h] = "Ascending" => NonDecreasing(displayedData, h)
        /\ sortDirection[h] = "Descending" => NonIncreasing(displayedData, h)

(***************************************************************************)
(* C5  displayedData is a function of (source data, filter specification,  *)
(* directions, invocation order): the state reached by handing the table   *)
(* the same filter specification once more, which recomputes the pipeline, *)
(* has the same displayedData whenever it has the same source data.        *)
(***************************************************************************)
C5_DisplayedIsFunctionOfInputs ==
  LET again == applyModifiers(Store)
  IN  again.data = data => again.displayedData = displayedData

(***************************************************************************)
(* C6  When a click takes a column from Descending back to None,           *)
(* displayedData is afterwards the filter applied to the source rows in    *)
(* the order supplied, followed by the sorts of the columns still active,  *)
(* each in its direction; for every filter specification.                  *)
(***************************************************************************)
\* the sorts of the columns of order from position i on, each in its direction
RECURSIVE SortsOfActive(_, _, _, _)
SortsOfActive(rows, order, dirs, i) ==
  IF i > Len(order)
    THEN rows
    ELSE SortsOfActive(
           sort(rows, order[i], IF dirs[order[i]] = "Descending" THEN -1 ELSE 1),
           order, dirs, i + 1)

\* C6: after a click from Descending to None the pipeline is that of the
\* supplied rows
C6_BackToNoneRecomputes ==
  \A h \in HeaderSet :
    (Toggled(h) /\ lastEvent.from = "Descending") =>
      /\ h \notin Range(sortInvocationOrder)
      /\ displayedData = SortsOfActive(FilterRows(suppliedData, filters),
                                       sortInvocationOrder, sortDirection, 1)

(***************************************************************************)
(* C7  A click that takes a column from Ascending to Descending keeps the  *)
(* column in sortInvocationOrder: as first stated, at the place it had,    *)
(* the whole sequence unchanged.                                           *)
(***************************************************************************)
C7_DescendingKeepsPosition ==
  [][\A h \in HeaderSet :
       (ToggleSort(h) /\ sortDirection[h] = "Ascending")
         => sortInvocationOrder' = sortInvocationOrder]_vars

\* C7 as amended: the click moves the column to the end of
\* sortInvocationOrder and leaves the other columns in their order, so the
\* sequence is unchanged exactly when the column was already last.
C7_DescendingMovesToEnd ==
  [][\A h \in HeaderSet :
       (ToggleSort(h) /\ sortDirection[h] = "Ascending")
         => /\ sortDirection'[h] = "Descending"
            /\ sortInvocationOrder' =
                 Append(SelectSeq(sortInvocationOrder, LAMBDA x : x # h), h)
            /\ (sortInvocationOrder' = sortInvocationOrder
                  <=> Last(sortInvocationOrder) = h)]_vars

\* a column that another was activated after has been clicked into Descending
C7_Witness ==
  /\ lastEvent.op = "toggle"
  /\ lastEvent.from = "Ascending"
  /\ lastEvent.pos = 1
  /\ Len(sortInvocationOrder) = 2
  /\ Last(sortInvocationOrder) = lastEvent.header
  /\ sortDirection[lastEvent.header] = "Descending"

(***************************************************************************)
(* C8  Retention rule: under a filter specification with at least one key  *)
(* a source row is displayed exactly when (a) there is no global filter,   *)
(* or its string is empty, or some cell's string form holds it without     *)
(* regard to case, and (b) for every key of both the row and the           *)
(* specification the plain string is held by the cell's string form        *)
(* without regard to case, or the pair's value is empty, or its predicate  *)
(* accepts (value, cell).                                                  *)
(***************************************************************************)
\* two characters are one letter in either case, or the same character
SameLetter(c, d) ==
  \/ c = d
  \/ \E i \in 1..Len(UpperChars) : {c, d} = {UpperChars[i], LowerChars[i]}

\* needle occurs in hay, letters compared without regard to case
ContainsIgnoringCase(hay, needle) ==
  \E i \in 0..(Len(hay) - Len(needle)) :
    \A j \in 1..Len(needle) : SameLetter(hay[i + j], needle[j])

RetentionRule(row, F) ==
  /\ \/ "global" \notin DOMAIN F
     \/ F["global"].str = <<>>
     \/ \E k \in DOMAIN row : ContainsIgnoringCase(String(row[k]), F["global"].str)
  /\ \A k \in (DOMAIN row) \cap (DOMAIN F) :
       IF F[k].type = "string"
         THEN ContainsIgnoringCase(String(row[k]), F[k].str)
         ELSE F[k].value = <<>> \/ modifier(F[k].modifier, F[k].value, row[k])

\* C8: a source row is displayed exactly when the retention rule holds of it
C8_RetentionRule ==
  DOMAIN filters # {} =>
    \A i \in 1..Len(data) :
      data[i] \in Range(displayedData) <=> RetentionRule(RowPool[data[i]], filters)

\* a predicate pair on h3 has dropped row 4 and kept row 5, which passes it,
\* and row 1, which has no h3
C8_Witness ==
  /\ lastEvent.op = "filter"
  /\ filters = ("h3" :> Pair(<<"N", "o">>, "yesNo"))
  /\ data = <<1, 4, 5>>
  /\ displayedData = <<1, 5>>

(***************************************************************************)
(* C9  Filter monotonicity: the filter step yields a subsequence of the    *)
(* source rows (same references, same relative order, none twice), the     *)
(* source array itself when the specification has no key, and ids 2, 3 for *)
(* {h1:'a'} on the three scenario rows.                                    *)
(***************************************************************************)
IsSubsequence(sub, seq) ==
  /\ NoDuplicates(sub)
  /\ Range(sub) \subseteq Range(seq)
  /\ \A i, j \in 1..Len(sub) :
       i < j => indexOf(seq, sub[i]) < indexOf(seq, sub[j])

\* C9: the filtered rows are a subsequence of the source rows
C9_FilterMonotone ==
  /\ IsSubsequence(displayedData, data)
  /\ (DOMAIN filters = {} => displayedData = data /\ aliased)
  /\ (data = <<1, 2, 3>> /\ filters = ("h1" :> Plain(<<"a">>))
        => displayedData = <<2, 3>>)

\* the scenario: {h1:'a'} on rows 1, 2, 3
C9_Witness ==
  /\ lastEvent.op = "filter"
  /\ data = <<1, 2, 3>>
  /\ filters = ("h1" :> Plain(<<"a">>))
  /\ displayedData = <<2, 3>>

(***************************************************************************)
(* C10  Filter idempotence: the filter step applied to its own result      *)
(* yields that result.                                                     *)
(***************************************************************************)
C10_FilterIdempotent == FilterRows(displayedData, filters) = displayedData

\* a filter has kept two rows of three
C10_Witness ==
  /\ lastEvent.op = "filter"
  /\ filters = ("global" :> Plain(<<"B">>))
  /\ data = <<1, 2, 5>>
  /\ displayedData = <<1, 5>>

(***************************************************************************)
(* C11  Filter correctness: in every state the rows on display are exactly *)
(* the source rows that pass the current filter specification, each once,  *)
(* in some order.  Rows are references to the source rows, which no step   *)
(* of the component writes to, so their cells are those of the source.     *)
(***************************************************************************)
PassesFilters(r) ==
  DOMAIN filters = {} \/ RetentionRule(RowPool[r], filters)

\* C11: displayedData is a duplicate-free arrangement of the source rows that
\* pass the filter specification
C11_DisplayedIsFilteredSource ==
  /\ NoDuplicates(displayedData)
  /\ Range(displayedData) = {r \in Range(data) : PassesFilters(r)}

\* a click has rearranged the two rows of three that pass {h1:'a'}
C11_Witness ==
  /\ lastEvent.op = "toggle"
  /\ filters = ("h1" :> Plain(<<"a">>))
  /\ data = <<1, 2, 3>>
  /\ displayedData = <<3, 2>>

(***************************************************************************)
(* C12  Pagination bounds: with a page size above zero the current page    *)
(* lies between 1 and the page count after any paginator clicks mixed with *)
(* filter and data changes, for every number of rows on display, zero      *)
(* included; 'next' on the last page and 'previous' on page 1 change       *)
(* nothing.                                                                *)
(***************************************************************************)
C12_PageWithinBounds ==
  /\ 1 <= currentPage
  /\ currentPage <= paginatorMaxPage
  /\ (currentPage = paginatorMaxPage => ENABLED (NextPage /\ currentPage' = currentPage))
  /\ (currentPage = 1 => ENABLED (PreviousPage /\ currentPage' = currentPage))

(***************************************************************************)
(* C13  Page count: the page count is the number of rows on display        *)
(* divided by the page size, rounded up, and at least 1 for every number   *)
(* of rows, zero included.                                                 *)
(***************************************************************************)
\* the least whole number that is at least n / d
Ceiling(n, d) == CHOOSE q \in 0..n : q * d >= n /\ (q = 0 \/ (q - 1) * d < n)

\* C13: the page count is the rounded-up quotient and never below 1
C13_MaxPageAtLeastOne ==
  /\ paginatorMaxPage = Ceiling(Len(displayedData), maxRows)
  /\ paginatorMaxPage >= 1

(***************************************************************************)
(* C14  Page reset: every change of the filter specification and every     *)
(* change of the source data puts the current page at 1, whatever the page *)
(* was before.                                                             *)
(***************************************************************************)
C14_ChangeResetsPage ==
  lastEvent.op \in {"filter", "data"} => currentPage = 1

\* a filter change arrived while page 2 was shown
C14_Witness ==
  /\ lastEvent.op = "filter"
  /\ lastEvent.page = 2
  /\ currentPage = 1

(***************************************************************************)
(* C15  Pagination coverage: the rows rendered on pages 1 to the page      *)
(* count, put one after another, are the rows on display, each once.  With *)
(* 5 rows and page size 2 page 1 shows rows 1-2, page 3 row 5 alone, and   *)
(* the page count is 3.                                                    *)
(***************************************************************************)
RECURSIVE pagesUpTo(_)
pagesUpTo(page) ==
  IF page <= 0 THEN <<>> ELSE pagesUpTo(page - 1) \o pageRows(page)

\* C15: the pages together are displayedData
C15_PagesCoverDisplayed ==
  /\ pagesUpTo(paginatorMaxPage) = displayedData
  /\ (Len(displayedData) = 5 =>
        /\ paginatorMaxPage = 3
        /\ pageRows(1) = <<displayedData[1], displayedData[2]>>
        /\ pageRows(3) = <<displayedData[5]>>)

\* the scenario: five rows, the user has paged to the third page
C15_Witness ==
  /\ lastEvent.op = "page"
  /\ Len(displayedData) = 5
  /\ currentPage = paginatorMaxPage
  /\ Len(pageRows(2)) = 2

(***************************************************************************)
(* C16  Page slice: on a page between 1 and the page count the rendered    *)
(* rows are the rows on display at 0-based places from pageSize * (page -  *)
(* 1) up to, not including, pageSize * page; with at least one row on      *)
(* display the first item shown is (page - 1) * pageSize + 1, the last the *)
(* lesser of page * pageSize and the number of rows, the first is not      *)
(* above the last, and last - first + 1 rows are rendered.                 *)
(***************************************************************************)
Min(a, b) == IF a < b THEN a ELSE b

C16_PageSlice ==
  (1 <= currentPage /\ currentPage <= paginatorMaxPage) =>
    /\ pageRows(currentPage) =
         SubSeq(displayedData, maxRows * (currentPage - 1) + 1,
                Min(maxRows * currentPage, Len(displayedData)))
    /\ (Len(displayedData) >= 1 =>
          /\ paginatorCurrentMinItem = (currentPage - 1) * maxRows + 1
          /\ paginatorCurrentMaxItem =
               Min(currentPage * maxRows, Len(displayedData))
          /\ paginatorCurrentMinItem <= paginatorCurrentMaxItem
          /\ paginatorCurrentMaxItem - paginatorCurrentMinItem + 1 =
               Len(pageRows(currentPage)))

\* the last page of five rows holds one row, item 5 to item 5
C16_Witness ==
  /\ lastEvent.op = "page"
  /\ Len(displayedData) = 5
  /\ currentPage = 3
  /\ paginatorCurrentMinItem = 5
  /\ paginatorCurrentMaxItem = 5
  /\ pageRows(currentPage) = <<displayedData[5]>>

(***************************************************************************)
(* C17  Expansion toggle: two expander clicks in a row on one identity     *)
(* bring isExpanded of that identity back to its value before the first,   *)
(* and a click on one identity never changes isExpanded of another.        *)
(***************************************************************************)
C17_ExpanderToggle ==
  /\ [](lastEvent.op = "expand" =>
          (isExpanded(lastEvent.row) <=>
             IF lastEvent.run = 2
               THEN lastEvent.from = "expanded"
               ELSE lastEvent.from = "collapsed"))
  /\ [][\A r \in RowRefs :
          ExpanderClick(r) =>
            \A q \in RowRefs :
              rowKey(q) # rowKey(r) => (isExpanded(q)' <=> isExpanded(q))]_vars

\* two clicks on row 1 have left it expanded as it was, row 2 staying
\* expanded throughout
C17_Witness ==
  /\ lastEvent.op = "expand"
  /\ lastEvent.run = 2
  /\ lastEvent.row = 1
  /\ lastEvent.from = "expanded"
  /\ isExpanded(1)
  /\ isExpanded(2)

(***************************************************************************)
(* C18  Expansion initial state: every row present at initialisation is    *)
(* collapsed at first, every row added later is collapsed until an         *)
(* expander click on its identity, and adding a row never changes the      *)
(* expansion state of a row already there.                                 *)
(***************************************************************************)
C18_CollapsedUntilClicked ==
  /\ [](lastEvent.op = "mount" => \A r \in Range(data) : ~isExpanded(r))
  /\ [][lastEvent'.op = "data" =>
          \A r \in RowRefs : isExpanded(r)' <=> isExpanded(r)]_vars
  /\ [][\A r \in RowRefs :
          (~isExpanded(r) /\ isExpanded(r)') =>
            /\ lastEvent'.op = "expand"
            /\ rowKey(lastEvent'.row) = rowKey(r)]_vars

\* row 2 has been pushed next to the expanded row 1, whose identity was not
\* seeded at setup, and is collapsed
C18_Witness ==
  /\ lastEvent.op = "data"
  /\ data = <<1, 2>>
  /\ isExpanded(1)
  /\ ~isExpanded(2)
  /\ DOMAIN expandedRows = {rowKey(1)}

(***************************************************************************)
(* C19  Rows without identity: a row that lacks the identity field is left *)
(* out of expansion tracking and can never be expanded; after any expander *)
(* clicks, clicks on such rows included, isExpanded is false of every such *)
(* row.                                                                    *)
(***************************************************************************)
C19_NoIdentityNeverExpanded ==
  \A r \in RowRefs : dataIdKey \notin DOMAIN RowPool[r] => ~isExpanded(r)

(***************************************************************************)
(* C20  Column reordering: a reorder permutes the sequence of column       *)
(* descriptors and changes nothing else: the filter specification, every   *)
(* column's sort direction, the invocation order, the rows on display, the *)
(* current page and the expansion flags stay as they were.                 *)
(***************************************************************************)
C20_ReorderOnlyPermutes ==
  [][lastEvent'.op = "reorder" =>
       /\ Len(headers') = Len(headers)
       /\ Range(headers') = Range(headers)
       /\ NoDuplicates(headers')
       /\ UNCHANGED <<filters, sortDirection, sortInvocationOrder,
                      displayedData, currentPage, expandedRows>>]_vars

\* h1 has been dragged behind h2 on a filtered table sorted by h1 descending,
\* on page 2 with row 1 expanded
C20_Witness ==
  /\ lastEvent.op = "reorder"
  /\ lastEvent.header = "h1"
  /\ headers = <<"h2", "h1">>
  /\ DOMAIN filters # {}
  /\ sortDirection["h1"] = "Descending"
  /\ sortInvocationOrder = <<"h1">>
  /\ currentPage = 2
  /\ isExpanded(1)

(***************************************************************************)
(* C21  Malformed filter: a filter specification with a pair that lacks    *)
(* its value or its predicate makes the filter step end in an error        *)
(* instead of a filtered result, for every source array and every value    *)
(* string, the empty one and arrays without that column included.          *)
(***************************************************************************)
IsMalformed(F) ==
  \E k \in DOMAIN F :
    F[k].type = "object" /\ ~({"value", "modifier"} \subseteq DOMAIN F[k])

C21_MalformedFilterFails ==
  (lastEvent.op = "filter" /\ IsMalformed(filters)) => lastEvent.threw

(***************************************************************************)
(* C22  Sort stability: in every sort by one column, on a header click and *)
(* on a resort, two rows with equal values in that column keep the order   *)
(* they had in the sequence that was sorted, ascending and descending.     *)
(***************************************************************************)
\* rows of after that are equal in column col stand as they stood in input
StableAgainst(after, input, col) ==
  \A i, j \in 1..Len(after) :
    (i < j /\ SameValue(after[i], after[j], col))
      => indexOf(input, after[i]) < indexOf(input, after[j])

\* C22: a click that sorts leaves equal rows in their order, and so does the
\* sort of the rows on display by any column in either direction
C22_SortIsStable ==
  /\ [][(lastEvent'.op = "toggle" /\ lastEvent'.from \in {"None", "Ascending"})
          => StableAgainst(displayedData', displayedData, lastEvent'.header)]_vars
  /\ [](\A h \in HeaderSet, orderCorrection \in {1, -1} :
          StableAgainst(sort(displayedData, h, orderCorrection), displayedData, h))

\* h1 went to Descending on <<3, 2, 1>>: rows 3 and 2, equal on h1, kept their
\* order behind row 1
C22_Witness ==
  /\ Toggled("h1")
  /\ lastEvent.from = "Ascending"
  /\ sortInvocationOrder = <<"h2", "h1">>
  /\ displayedData = <<1, 3, 2>>

(***************************************************************************)
(* C23  Sort direction: right after a header click that puts a column into *)
(* Ascending the values of the rows on display along that column never     *)
(* fall, right after one that puts it into Descending they never rise,     *)
(* under any filter specification and with any other columns active.       *)
(***************************************************************************)
C23_ToggleSortsByDirection ==
  \A h \in HeaderSet :
    Toggled(h) =>
      /\ sortDirection[h] = "Ascending" => NonDecreasing(displayedData, h)
      /\ sortDirection[h] = "Descending" => NonIncreasing(displayedData, h)

\* h2 went to Descending while h1 was active and a filter was set: 2, 2, 1
C23_Witness ==
  /\ Toggled("h2")
  /\ sortDirection["h2"] = "Descending"
  /\ sortDirection["h1"] # "None"
  /\ DOMAIN filters # {}
  /\ Len(displayedData) = 3
  /\ Rising(displayedData[3], displayedData[1], "h2")

(***************************************************************************)
(* C24  Sort state of every column: each column of the current descriptor  *)
(* sequence, one added after setup included, has one of the directions     *)
(* None, Ascending, Descending in every state, and a header click on it    *)
(* advances the cycle.                                                     *)
(***************************************************************************)
C24_EveryColumnHasDirection ==
  /\ \A i \in 1..Len(headers) : sortDirection[headers[i]] \in SortDirections
  /\ \A i \in 1..Len(headers) :
       (Toggled(headers[i]) /\ lastEvent.from \in SortDirections)
         => sortDirection[headers[i]] = CycleNext(lastEvent.from)

(***************************************************************************)
(* C25  Direction changes only by a click on the column: a header click on *)
(* column X leaves the direction of every other column as it was, and      *)
(* filter changes, data changes, paginator clicks, expander clicks and     *)
(* header drags leave every direction and the invocation order as they     *)
(* were.                                                                   *)
(***************************************************************************)
C25_DirectionChangesOnlyByToggle ==
  [][/\ lastEvent'.op = "toggle" =>
          \A h \in HeaderKeys \ {lastEvent'.header} :
            sortDirection'[h] = sortDirection[h]
     /\ lastEvent'.op \in {"filter", "data", "page", "expand", "reorder"} =>
          UNCHANGED <<sortDirection, sortInvocationOrder>>]_vars

\* the parent has replaced the data while h2 was Ascending and h1 Descending
C25_Witness ==
  /\ lastEvent.op = "data"
  /\ sortInvocationOrder = <<"h2", "h1">>
  /\ sortDirection["h2"] = "Ascending"
  /\ sortDirection["h1"] = "Descending"
  /\ Len(displayedData) = 3

(***************************************************************************)
(* C26  Source data untouched: no header click reorders the array the      *)
(* parent owns; after any clicks, under any filter specification, one      *)
(* without keys included, props.data holds the rows in the order they were *)
(* supplied in, and sorting reorders the rows on display alone.            *)
(***************************************************************************)
C26_SourceOrderKept == data = suppliedData

====
